---- MODULE Spec2Model ----
(***************************************************************************)
(* Model of the task API's auto-completion worker (package worker), the    *)
(* task store it reads and writes (package repositories) and the task      *)
(* service operations that edit the same rows (package services).          *)
(*                                                                         *)
(* Goroutines: the checker (checkAndQueueTasks), the processor             *)
(* (processTasksFromChannel), the caller of Stop, callers of SubmitTask,   *)
(* and one HTTP request at a time running TaskService.UpdateTask.          *)
(* Every store statement is one atomic step; a statement that writes       *)
(* reads NOW() strictly later than every timestamp stored before it.       *)
(*                                                                         *)
(* Spec     - the worker and the task service together                     *)
(* FairSpec - the worker alone, under fair scheduling                      *)
(* LockSpec - the worker alone, the checker's use of the mutex taken       *)
(*            statement by statement                                       *)
(* ReadSpec - the HTTP operations on one task: GET, update, delete         *)
(***************************************************************************)
EXTENDS Integers, Sequences, FiniteSets, TLC

\* ------------------------------------------------------------------ bounds
\* capacity of taskChannel (100 in NewTaskWorker, scaled down)
QueueCap == 2
\* last instant of the store clock
MaxTime == 4
\* cfg.AutoCompleteMinutes (AUTO_COMPLETE_MINUTES, 30 by default)
AutoCompleteMinutes == 1

TaskIds == {"t1", "t2"}
\* goroutines calling SubmitTask. The channel serializes sends, so two calls
\* made at once are two calls made one after the other by a caller that
\* returns and calls again.
Submitters == {"s1"}
Callers == {"u1", "u2", "admin"}
\* identifiers handed to SubmitTask, and tasks edited through the task service
SubmitIds == {"t2"}
EditIds == {"t1"}
\* identifiers the store gives to tasks created later, and all identifiers
NewIds == {"t3"}
StoreIds == TaskIds \cup NewIds
NoId == "-"

\* the clock when the worker is constructed: the store then holds task t1,
\* created at instant 0 and older than the delay, and task t2, created at
\* that very instant
StartTime == AutoCompleteMinutes + 1
Owner(id) == IF id = "t1" THEN "u1" ELSE "u2"

\* no GET /api/tasks/{id} answered yet
NoResponse ==
  [caller |-> NoId, id |-> NoId, code |-> 0,
   body |-> [id |-> NoId, title |-> "", description |-> "", status |-> ""]]

VARIABLES
  tasks,           \* table tasks: id -> row
  now,             \* store clock
  started,         \* Start() has run
  mu,              \* sync.Mutex of the worker: "free" or the goroutine holding it
  getResp,         \* response of the last GET /api/tasks/{id}
  stopPc,          \* Stop(): "idle", "waiting" (stopChannel closed), "returned" (taskChannel closed)
  panicked,        \* the process died of a runtime panic
  taskChannel,     \* buffered channel: sequence of [id, src]
  processedTasks,  \* map[string]bool, as the set of its keys
  scanPc,          \* checker goroutine position
  scanList,        \* tasks slice still to range over
  scanCur,         \* task.ID of the iteration in its select
  procPc,          \* processor goroutine position
  procCur,         \* taskID held by autoCompleteTask
  subPc,           \* SubmitTask callers: "idle" or "blocked"
  subId,           \* the id a blocked caller is sending
  updPc,           \* TaskService.UpdateTask request: "idle" or "write"
  updTask,         \* the task it read, with the request applied
  hist,            \* history of the run, read by the properties only
  svcErr           \* error of the last TaskService.CreateTask or UpdateTask return, "" for nil

vars == << tasks, now, started, mu, getResp, stopPc, panicked, taskChannel, processedTasks,
           scanPc, scanList, scanCur, procPc, procCur, subPc, subId,
           updPc, updTask, hist, svcErr >>

\* ------------------------------------------------------------------ store
OpenStatuses == {"pending", "in_progress"}
validStatuses == {"pending", "in_progress", "completed"}

NoRow(r) ==
  [row |-> r, user_id |-> "", title |-> "", description |-> "", status |-> "",
   created_at |-> 0, updated_at |-> 0]

Live(db, id) == id \in DOMAIN db /\ db[id].row = "live"

\* INSERT INTO tasks ... RETURNING id, created_at, updated_at
CreateTaskRow(db, id, userID, title, description, t) ==
  [db EXCEPT ![id] = [row |-> "live", user_id |-> userID, title |-> title,
                      description |-> description, status |-> "pending",
                      created_at |-> t, updated_at |-> t]]

\* SELECT ... FROM tasks WHERE id = $1; ErrNoRows becomes "task not found"
GetTaskByID(db, id) ==
  IF Live(db, id) THEN [err |-> FALSE, task |-> db[id]]
  ELSE [err |-> TRUE, task |-> NoRow("absent")]

\* the fields of *models.Task that repositories.UpdateTask reads
NoTask == [id |-> NoId, title |-> "", description |-> "", status |-> ""]
TaskArg(id, task) ==
  [id |-> id, title |-> task.title, description |-> task.description,
   status |-> task.status]

\* UPDATE tasks SET title, description, status, updated_at = NOW() WHERE id = $4
UpdateTaskRow(db, id, task, t) ==
  IF Live(db, id)
  THEN [db EXCEPT ![id].title = task.title, ![id].description = task.description,
                  ![id].status = task.status, ![id].updated_at = t]
  ELSE db

\* DELETE FROM tasks WHERE id = $1
DeleteTaskRow(db, id) ==
  IF Live(db, id) THEN [db EXCEPT ![id] = NoRow("deleted")] ELSE db

\* SELECT ... WHERE status IN ('pending','in_progress')
\*   AND created_at < NOW() - INTERVAL '1 minute' * $1
GetTasksForAutoCompletion(db, t, minutes) ==
  {id \in DOMAIN db : /\ db[id].row = "live"
                      /\ db[id].status \in OpenStatuses
                      /\ db[id].created_at < t - minutes}

\* AutoCompleteTask without the status condition in its WHERE clause
AutoCompleteTaskUnguarded(db, id, t) ==
  IF Live(db, id)
  THEN [db EXCEPT ![id].status = "completed", ![id].updated_at = t]
  ELSE db

\* AutoCompleteTask with `status = 'in_progress'` for the status condition
AutoCompleteTaskInProgressOnly(db, id, t) ==
  IF Live(db, id) /\ db[id].status = "in_progress"
  THEN [db EXCEPT ![id].status = "completed", ![id].updated_at = t]
  ELSE db

\* AutoCompleteTask without `id = $1` in its WHERE clause
AutoCompleteTaskAllOpen(db, id, t) ==
  [k \in DOMAIN db |->
     IF Live(db, k) /\ db[k].status \in OpenStatuses
     THEN [db[k] EXCEPT !.status = "completed", !.updated_at = t]
     ELSE db[k]]

\* UPDATE tasks SET status = 'completed', updated_at = NOW()
\*   WHERE id = $1 AND status IN ('pending','in_progress')
AutoCompleteTask(db, id, t) ==
  IF Live(db, id) /\ db[id].status \in OpenStatuses
  THEN [db EXCEPT ![id].status = "completed", ![id].updated_at = t]
  ELSE db

\* ------------------------------------------------------------------ helpers
Entry(id, src) == [id |-> id, src |-> src]
NoEntry == Entry(NoId, "-")
Ids(q) == {q[i].id : i \in 1..Len(q)}
Elems(sq) == {sq[i] : i \in 1..Len(sq)}
\* a channel without a capacity
HasRoomAlways == TRUE

\* a send on taskChannel can proceed: the buffer is not full
HasRoom == Len(taskChannel) < QueueCap
StopRaised == stopPc # "idle"
Closed == stopPc = "returned"
\* the HTTP server serves from ListenAndServe until os.Exit(0), which follows Stop()
Serving == started /\ stopPc # "returned"

\* every order in which the rows of a result set can come back
Orders(S) ==
  {sq \in UNION {[1..n -> S] : n \in 0..Cardinality(S)} :
     /\ Len(sq) = Cardinality(S)
     /\ \A i, j \in 1..Len(sq) : i # j => sq[i] # sq[j]}

\* findAndQueueTasks querying again after the last task instead of returning
AfterIterationRescan(rest) == IF rest = << >> THEN "query" ELSE "loop"

\* where the checker goes after one iteration of `for _, task := range tasks`
AfterIteration(rest) == IF rest = << >> THEN "wait" ELSE "loop"

\* ------------------------------------------------------------------ history
\* backlog: identifiers queued when Stop() was called and not yet handed to
\*          autoCompleteTask
\* due:     tasks the latest eligibility query returned, while nothing but the
\*          worker has touched them since: no manual write or delete, no failed
\*          store call, no enqueue timeout, no stop signal
\* tainted: a store call failed since the ticker fired for the scan under way
\* writes:  per task, the conditional updates that changed its row since the
\*          last manual write to it (counted up to 2)
\* keeps:   the update request in progress has an empty status field
\* sent:    identifiers the checker has put on the channel
HistInit ==
  [backlog |-> 0, due |-> {}, tainted |-> FALSE, writes |-> [id \in TaskIds |-> 0],
   keeps |-> FALSE, sent |-> {}]

\* a store call of autoCompleteTask failed for id
Failed(h, id) == [h EXCEPT !.due = @ \ {id}, !.tainted = scanPc = "query"]

\* a manual write or a delete touched task id
Edited(h, id) ==
  IF id \in TaskIds THEN [h EXCEPT !.due = @ \ {id}, !.writes[id] = 0] ELSE h

\* repositories.AutoCompleteTask returned without error for id; db2 is the
\* table it leaves
Wrote(h, id, db, db2) ==
  IF db2[id] # db[id] THEN [h EXCEPT !.writes[id] = IF @ < 2 THEN @ + 1 ELSE 2] ELSE h

\* ------------------------------------------------------------------ initial state
Init ==
  /\ tasks = [id \in StoreIds |->
                IF id \in NewIds THEN NoRow("absent")
                ELSE [row |-> "live", user_id |-> Owner(id), title |-> "T1",
                      description |-> "", status |-> "pending",
                      created_at |-> IF id = "t1" THEN 0 ELSE StartTime,
                      updated_at |-> IF id = "t1" THEN 0 ELSE StartTime]]
  /\ now = StartTime
  /\ started = FALSE
  /\ mu = "free"
  /\ getResp = NoResponse
  /\ stopPc = "idle"
  /\ panicked = FALSE
  /\ taskChannel = << >>
  /\ processedTasks = {}
  /\ scanPc = "none"
  /\ scanList = << >>
  /\ scanCur = NoId
  /\ procPc = "none"
  /\ procCur = NoEntry
  /\ subPc = [s \in Submitters |-> "idle"]
  /\ subId = [s \in Submitters |-> NoId]
  /\ updPc = "idle"
  /\ updTask = NoTask
  /\ hist = HistInit
  /\ svcErr = ""

\* ------------------------------------------------------------------ lifecycle
\* Start: launches processTasksFromChannel and checkAndQueueTasks
Start ==
  /\ ~panicked
  /\ ~started
  /\ started' = TRUE
  /\ scanPc' = "wait"
  /\ procPc' = "wait"
  /\ UNCHANGED << tasks, now, mu, getResp, stopPc, panicked, taskChannel, processedTasks,
                  scanList, scanCur, procCur, subPc, subId, updPc, updTask, hist, svcErr >>

\* Stop, first statement: close(w.stopChannel); then it blocks in w.wg.Wait()
StopCall ==
  /\ ~panicked
  /\ started
  /\ stopPc = "idle"
  /\ stopPc' = "waiting"
  /\ hist' = [hist EXCEPT !.backlog = Len(taskChannel), !.due = {}]
  /\ UNCHANGED << tasks, now, started, mu, getResp, panicked, taskChannel, processedTasks, scanPc,
                  scanList, scanCur, procPc, procCur, subPc, subId, updPc, updTask, svcErr >>

\* w.wg.Wait() returning once the processor alone has called Done
WaitReturnsOnProcessor == procPc = "done"

\* w.wg.Wait() returns: both goroutines have run their deferred w.wg.Done()
WaitReturns == scanPc = "done" /\ procPc = "done"

\* Stop, after w.wg.Wait() returned: close(w.taskChannel) and return. A sender
\* blocked on the channel at that moment panics.
StopReturn ==
  /\ ~panicked
  /\ stopPc = "waiting"
  /\ WaitReturns
  /\ stopPc' = "returned"
  /\ panicked' = (\E s \in Submitters : subPc[s] = "blocked")
  /\ UNCHANGED << tasks, now, started, mu, getResp, taskChannel, processedTasks, scanPc, scanList,
                  scanCur, procPc, procCur, subPc, subId, updPc, updTask, hist, svcErr >>

\* ------------------------------------------------------------------ checker
\* checkAndQueueTasks: case <-ticker.C, entering findAndQueueTasks
ScanTick ==
  /\ ~panicked
  /\ scanPc = "wait"
  /\ scanPc' = "query"
  /\ UNCHANGED << tasks, now, started, mu, getResp, stopPc, panicked, taskChannel, processedTasks,
                  scanList, scanCur, procPc, procCur, subPc, subId, updPc, updTask,
                  hist, svcErr >>

\* checkAndQueueTasks: case <-w.stopChannel
ScanExit ==
  /\ ~panicked
  /\ scanPc = "wait"
  /\ StopRaised
  /\ scanPc' = "done"
  /\ UNCHANGED << tasks, now, started, mu, getResp, stopPc, panicked, taskChannel, processedTasks,
                  scanList, scanCur, procPc, procCur, subPc, subId, updPc, updTask,
                  hist, svcErr >>

\* findAndQueueTasks: the eligibility query; on an error the checker is in the
\* `if err != nil` branch
ScanQuery ==
  /\ ~panicked
  /\ scanPc = "query"
  /\ \/ /\ scanPc' = "failed"
        /\ hist' = [hist EXCEPT !.tainted = FALSE]
        /\ UNCHANGED scanList
     \/ \E sq \in Orders(GetTasksForAutoCompletion(tasks, now, AutoCompleteMinutes)) :
          /\ scanList' = sq
          /\ scanPc' = AfterIteration(sq)
          /\ hist' = [hist EXCEPT !.due = IF StopRaised \/ hist.tainted THEN {} ELSE Elems(sq),
                                  !.tainted = FALSE]
  /\ UNCHANGED << tasks, now, started, mu, getResp, stopPc, panicked, taskChannel, processedTasks,
                  scanCur, procPc, procCur, subPc, subId, updPc, updTask, svcErr >>

\* the checker goroutine ending on a query error
AfterQueryErrorExit == "done"

\* where findAndQueueTasks leaves the checker when the query returned an error:
\* it logs and returns to the loop of checkAndQueueTasks
AfterQueryError == "wait"

\* findAndQueueTasks: `log.Printf(...); return` after a failed query
ScanSkip ==
  /\ ~panicked
  /\ scanPc = "failed"
  /\ scanPc' = AfterQueryError
  /\ UNCHANGED << tasks, now, started, mu, getResp, stopPc, panicked, taskChannel, processedTasks,
                  scanList, scanCur, procPc, procCur, subPc, subId, updPc, updTask,
                  hist, svcErr >>

\* the marker test replaced by a look at the channel
ShouldQueueUnlessQueued(m, id) == id \notin Ids(taskChannel)

\* the marker test left out
ShouldQueueAlways(m, id) == TRUE

\* `if _, exists := w.processedTasks[task.ID]; !exists`
ShouldQueue(m, id) == id \notin m

\* one iteration up to the select: Lock, test and set the marker, Unlock
ScanVisit ==
  /\ ~panicked
  /\ scanPc = "loop"
  /\ LET id == Head(scanList) IN
       /\ IF ShouldQueue(processedTasks, id)
          THEN /\ processedTasks' = processedTasks \cup {id}
               /\ scanCur' = id
               /\ scanPc' = "send"
          ELSE /\ scanPc' = AfterIteration(Tail(scanList))
               /\ UNCHANGED << processedTasks, scanCur >>
       /\ scanList' = Tail(scanList)
  /\ UNCHANGED << tasks, now, started, mu, getResp, stopPc, panicked, taskChannel, procPc, procCur,
                  subPc, subId, updPc, updTask, hist, svcErr >>

\* a send that also completes the task in the store as it queues it
ScanSendCompleting ==
  /\ ~panicked
  /\ scanPc = "send"
  /\ HasRoom
  /\ taskChannel' = Append(taskChannel, Entry(scanCur, "scan"))
  /\ tasks' = AutoCompleteTaskUnguarded(tasks, scanCur, now)
  /\ scanCur' = NoId
  /\ hist' = [hist EXCEPT !.sent = @ \cup {scanCur}]
  /\ scanPc' = AfterIteration(scanList)
  /\ UNCHANGED << now, started, mu, getResp, stopPc, panicked, processedTasks, scanList,
                  procPc, procCur, subPc, subId, updPc, updTask, svcErr >>

\* select: case w.taskChannel <- task.ID
ScanSend ==
  /\ ~panicked
  /\ scanPc = "send"
  /\ HasRoom
  /\ taskChannel' = Append(taskChannel, Entry(scanCur, "scan"))
  /\ scanCur' = NoId
  /\ hist' = [hist EXCEPT !.sent = @ \cup {scanCur}]
  /\ scanPc' = AfterIteration(scanList)
  /\ UNCHANGED << tasks, now, started, mu, getResp, stopPc, panicked, processedTasks, scanList,
                  procPc, procCur, subPc, subId, updPc, updTask, svcErr >>

\* the timeout branch without its delete
EvictMarkerForgotten(m, id) == m

\* `delete(w.processedTasks, task.ID)` under the lock
EvictMarker(m, id) == m \ {id}

\* select: case <-time.After(100 * time.Millisecond), the channel still full
ScanTimeout ==
  /\ ~panicked
  /\ scanPc = "send"
  /\ ~HasRoom
  /\ processedTasks' = EvictMarker(processedTasks, scanCur)
  /\ scanCur' = NoId
  /\ scanPc' = AfterIteration(scanList)
  /\ hist' = [hist EXCEPT !.due = @ \ {scanCur}]
  /\ UNCHANGED << tasks, now, started, mu, getResp, stopPc, panicked, taskChannel, scanList,
                  procPc, procCur, subPc, subId, updPc, updTask, svcErr >>

\* ------------------------------------------------------------------ checker, statement by statement
\* ScanVisit and ScanTimeout taken apart into their Lock, map access and Unlock

\* an Unlock left out
UnlockForgotten(m) == m

\* w.mu.Unlock()
Unlock(m) == "free"

\* one iteration: w.mu.Lock()
VisitLock ==
  /\ ~panicked
  /\ scanPc = "loop"
  /\ mu = "free"
  /\ mu' = "checker"
  /\ scanPc' = "locked"
  /\ UNCHANGED << tasks, now, started, getResp, stopPc, panicked, taskChannel, processedTasks,
                  scanList, scanCur, procPc, procCur, subPc, subId, updPc, updTask, hist, svcErr >>

\* one iteration: the marker test and, for an absent marker, its set
VisitTest ==
  /\ ~panicked
  /\ scanPc = "locked"
  /\ LET id == Head(scanList) IN
       /\ IF ShouldQueue(processedTasks, id)
          THEN /\ processedTasks' = processedTasks \cup {id}
               /\ scanCur' = id
               /\ scanPc' = "marked"
          ELSE /\ scanPc' = "skipped"
               /\ UNCHANGED << processedTasks, scanCur >>
       /\ scanList' = Tail(scanList)
  /\ UNCHANGED << tasks, now, started, mu, getResp, stopPc, panicked, taskChannel, procPc,
                  procCur, subPc, subId, updPc, updTask, hist, svcErr >>

\* one iteration: w.mu.Unlock() of the if branch, before the select, and of
\* the else branch, which ends the iteration
VisitUnlock ==
  /\ ~panicked
  /\ scanPc \in {"marked", "skipped"}
  /\ mu' = Unlock(mu)
  /\ scanPc' = IF scanPc = "marked" THEN "send" ELSE AfterIteration(scanList)
  /\ UNCHANGED << tasks, now, started, getResp, stopPc, panicked, taskChannel, processedTasks,
                  scanList, scanCur, procPc, procCur, subPc, subId, updPc, updTask, hist, svcErr >>

\* select: case <-time.After(100 * time.Millisecond), then w.mu.Lock()
TimeoutLock ==
  /\ ~panicked
  /\ scanPc = "send"
  /\ ~HasRoom
  /\ mu = "free"
  /\ mu' = "checker"
  /\ scanPc' = "evict"
  /\ UNCHANGED << tasks, now, started, getResp, stopPc, panicked, taskChannel, processedTasks,
                  scanList, scanCur, procPc, procCur, subPc, subId, updPc, updTask, hist, svcErr >>

\* timeout case: delete(w.processedTasks, task.ID)
TimeoutEvict ==
  /\ ~panicked
  /\ scanPc = "evict"
  /\ processedTasks' = EvictMarker(processedTasks, scanCur)
  /\ scanPc' = "evicted"
  /\ hist' = [hist EXCEPT !.due = @ \ {scanCur}]
  /\ UNCHANGED << tasks, now, started, mu, getResp, stopPc, panicked, taskChannel, scanList,
                  scanCur, procPc, procCur, subPc, subId, updPc, updTask, svcErr >>

\* timeout case: w.mu.Unlock(), which ends the iteration
TimeoutUnlock ==
  /\ ~panicked
  /\ scanPc = "evicted"
  /\ mu' = Unlock(mu)
  /\ scanCur' = NoId
  /\ scanPc' = AfterIteration(scanList)
  /\ UNCHANGED << tasks, now, started, getResp, stopPc, panicked, taskChannel, processedTasks,
                  scanList, procPc, procCur, subPc, subId, updPc, updTask, hist, svcErr >>

\* ------------------------------------------------------------------ processor
\* a receive that takes the identifier sent last
ReceiveNewest(q) == [item |-> q[Len(q)], rest |-> SubSeq(q, 1, Len(q) - 1)]

\* a receive on the buffered channel: the identifier sent first, and what stays queued
Receive(q) == [item |-> Head(q), rest |-> Tail(q)]

\* processTasksFromChannel: case taskID := <-w.taskChannel
ProcDequeue ==
  /\ ~panicked
  /\ procPc = "wait"
  /\ taskChannel # << >>
  /\ procCur' = Receive(taskChannel).item
  /\ taskChannel' = Receive(taskChannel).rest
  /\ procPc' = "fetch"
  /\ hist' = [hist EXCEPT !.backlog = IF @ > 0 THEN @ - 1 ELSE 0]
  /\ UNCHANGED << tasks, now, started, mu, getResp, stopPc, panicked, processedTasks, scanPc,
                  scanList, scanCur, subPc, subId, updPc, updTask, svcErr >>

\* processTasksFromChannel: case <-w.stopChannel
ProcExit ==
  /\ ~panicked
  /\ procPc = "wait"
  /\ StopRaised
  /\ procPc' = "done"
  /\ UNCHANGED << tasks, now, started, mu, getResp, stopPc, panicked, taskChannel, processedTasks,
                  scanPc, scanList, scanCur, procCur, subPc, subId, updPc, updTask,
                  hist, svcErr >>

\* autoCompleteTask up to the conditional update: what it does with the re-fetch
FetchOutcome(r) ==
  IF r.err THEN "skip"
  ELSE IF r.task.status = "completed" THEN "skip"
  ELSE "update"

\* the processor goroutine ending when autoCompleteTask logged an error
ProcAfterExitOnError(err) == IF err THEN "done" ELSE "wait"

\* the processor loop after autoCompleteTask returned (err: it logged an error)
ProcAfter(err) == "wait"

\* autoCompleteTask: GetTaskByID, which may fail, and the status check
ProcFetch ==
  /\ ~panicked
  /\ procPc = "fetch"
  /\ \/ /\ procPc' = ProcAfter(TRUE)
        /\ procCur' = NoEntry
        /\ hist' = Failed(hist, procCur.id)
     \/ LET r == GetTaskByID(tasks, procCur.id) IN
          IF FetchOutcome(r) = "update"
          THEN /\ procPc' = "update"
               /\ UNCHANGED << procCur, hist >>
          ELSE /\ procPc' = ProcAfter(r.err)
               /\ procCur' = NoEntry
               /\ UNCHANGED hist
  /\ UNCHANGED << tasks, now, started, mu, getResp, stopPc, panicked, taskChannel, processedTasks,
                  scanPc, scanList, scanCur, subPc, subId, updPc, updTask, svcErr >>

\* autoCompleteTask: repositories.AutoCompleteTask, which may fail
ProcUpdate ==
  /\ ~panicked
  /\ procPc = "update"
  /\ \/ /\ procPc' = ProcAfter(TRUE)
        /\ hist' = Failed(hist, procCur.id)
        /\ UNCHANGED << tasks, now >>
     \/ /\ now < MaxTime
        /\ tasks' = AutoCompleteTask(tasks, procCur.id, now + 1)
        /\ now' = now + 1
        /\ procPc' = ProcAfter(FALSE)
        /\ hist' = Wrote(hist, procCur.id, tasks, tasks')
  /\ procCur' = NoEntry
  /\ UNCHANGED << started, mu, getResp, stopPc, panicked, taskChannel, processedTasks, scanPc,
                  scanList, scanCur, subPc, subId, updPc, updTask, svcErr >>

\* ------------------------------------------------------------------ SubmitTask
\* SubmitTask reaches its select: it sends at once when there is room, panics
\* on a closed channel, and blocks otherwise
SubmitTask(s, id) ==
  /\ ~panicked
  /\ started
  /\ subPc[s] = "idle"
  /\ \/ /\ Closed
        /\ panicked' = TRUE
        /\ UNCHANGED << taskChannel, subPc, subId, hist >>
     \/ /\ ~Closed
        /\ HasRoom
        /\ taskChannel' = Append(taskChannel, Entry(id, "submit"))
        /\ UNCHANGED << panicked, subPc, subId, hist, svcErr >>
     \/ /\ ~Closed
        /\ ~HasRoom
        /\ subPc' = [subPc EXCEPT ![s] = "blocked"]
        /\ subId' = [subId EXCEPT ![s] = id]
        /\ UNCHANGED << panicked, taskChannel, hist, svcErr >>
  /\ UNCHANGED << tasks, now, started, mu, getResp, stopPc, processedTasks, scanPc, scanList,
                  scanCur, procPc, procCur, updPc, updTask, svcErr >>

\* SubmitTask blocked in the select: case w.taskChannel <- taskID, return nil
SubmitSend(s) ==
  /\ ~panicked
  /\ subPc[s] = "blocked"
  /\ HasRoom
  /\ taskChannel' = Append(taskChannel, Entry(subId[s], "submit"))
  /\ subPc' = [subPc EXCEPT ![s] = "idle"]
  /\ subId' = [subId EXCEPT ![s] = NoId]
  /\ UNCHANGED << tasks, now, started, mu, getResp, stopPc, panicked, processedTasks, scanPc,
                  scanList, scanCur, procPc, procCur, updPc, updTask, hist, svcErr >>

\* SubmitTask blocked in the select: case <-time.After(5 * time.Second),
\* return ErrChannelFull
SubmitTimeout(s) ==
  /\ ~panicked
  /\ subPc[s] = "blocked"
  /\ ~HasRoom
  /\ subPc' = [subPc EXCEPT ![s] = "idle"]
  /\ subId' = [subId EXCEPT ![s] = NoId]
  /\ UNCHANGED << tasks, now, started, mu, getResp, stopPc, panicked, taskChannel, processedTasks,
                  scanPc, scanList, scanCur, procPc, procCur, updPc, updTask, hist, svcErr >>

\* ------------------------------------------------------------------ task service
\* time passes
Tick ==
  /\ ~panicked
  /\ Serving
  /\ now < MaxTime
  /\ now' = now + 1
  /\ UNCHANGED << tasks, started, mu, getResp, stopPc, panicked, taskChannel, processedTasks, scanPc,
                  scanList, scanCur, procPc, procCur, subPc, subId, updPc, updTask,
                  hist, svcErr >>

\* the request applied to the task read (empty fields keep the stored value)
ApplyRequest(task, req) ==
  [task EXCEPT !.title = IF req.title # "" THEN req.title ELSE @,
               !.description = IF req.description # "" THEN req.description ELSE @,
               !.status = IF req.status # "" THEN req.status ELSE @]

\* UpdateTaskError without the validation of req.Status
UpdateTaskErrorUnvalidated(db, id, userID, isAdmin, req) ==
  LET r == GetTaskByID(db, id) IN
    IF r.err THEN "task not found"
    ELSE IF ~isAdmin /\ r.task.user_id # userID THEN "unauthorized to update this task"
    ELSE ""

\* the error TaskService.UpdateTask returns before it writes, "" when it goes on
UpdateTaskError(db, id, userID, isAdmin, req) ==
  LET r == GetTaskByID(db, id) IN
    IF r.err THEN "task not found"
    ELSE IF ~isAdmin /\ r.task.user_id # userID THEN "unauthorized to update this task"
    ELSE IF req.status # "" /\ req.status \notin validStatuses THEN "invalid status"
    ELSE ""

\* TaskService.UpdateTask returning one of its errors before the write
UpdateTaskReject(id, userID, isAdmin, req) ==
  /\ ~panicked
  /\ Serving
  /\ UpdateTaskError(tasks, id, userID, isAdmin, req) # ""
  /\ svcErr' = UpdateTaskError(tasks, id, userID, isAdmin, req)
  /\ UNCHANGED << tasks, now, started, mu, getResp, stopPc, panicked, taskChannel, processedTasks,
                  scanPc, scanList, scanCur, procPc, procCur, subPc, subId, updPc, updTask,
                  hist >>

\* TaskService.UpdateTask up to the write: read, authorize, validate, apply
UpdateTaskRead(id, userID, isAdmin, req) ==
  /\ ~panicked
  /\ Serving
  /\ updPc = "idle"
  /\ UpdateTaskError(tasks, id, userID, isAdmin, req) = ""
  /\ updTask' = TaskArg(id, ApplyRequest(GetTaskByID(tasks, id).task, req))
  /\ updPc' = "write"
  /\ hist' = [hist EXCEPT !.keeps = (req.status = "")]
  /\ UNCHANGED << tasks, now, started, mu, getResp, stopPc, panicked, taskChannel, processedTasks,
                  scanPc, scanList, scanCur, procPc, procCur, subPc, subId, svcErr >>

\* TaskService.UpdateTask: repositories.UpdateTask
UpdateTaskWrite ==
  /\ ~panicked
  /\ Serving
  /\ updPc = "write"
  /\ now < MaxTime
  /\ tasks' = UpdateTaskRow(tasks, updTask.id, updTask, now + 1)
  /\ now' = now + 1
  /\ updPc' = "idle"
  /\ updTask' = NoTask
  /\ svcErr' = ""
  /\ hist' = [Edited(hist, updTask.id) EXCEPT !.keeps = FALSE]
  /\ UNCHANGED << started, mu, getResp, stopPc, panicked, taskChannel, processedTasks, scanPc,
                  scanList, scanCur, procPc, procCur, subPc, subId >>

\* TaskService.DeleteTask: read, authorize, delete
DeleteTask(id, userID, isAdmin) ==
  /\ ~panicked
  /\ Serving
  /\ LET r == GetTaskByID(tasks, id) IN
       /\ ~r.err
       /\ isAdmin \/ r.task.user_id = userID
  /\ tasks' = DeleteTaskRow(tasks, id)
  /\ hist' = Edited(hist, id)
  /\ UNCHANGED << now, started, mu, getResp, stopPc, panicked, taskChannel, processedTasks, scanPc,
                  scanList, scanCur, procPc, procCur, subPc, subId, updPc, updTask, svcErr >>

\* request bodies of POST /api/tasks
CreateRequests ==
  {[title |-> "T1", description |-> ""], [title |-> "", description |-> "d"]}

\* TaskService.CreateTask: a request without a title is refused, another is
\* inserted as a pending task under an identifier the store has not used
CreateTask(userID, req) ==
  /\ ~panicked
  /\ Serving
  /\ IF req.title = ""
     THEN /\ svcErr' = "title is required"
          /\ UNCHANGED << tasks, now >>
     ELSE /\ now < MaxTime
          /\ \E id \in NewIds :
               /\ tasks[id].row = "absent"
               /\ tasks' = CreateTaskRow(tasks, id, userID, req.title, req.description,
                                         now + 1)
          /\ now' = now + 1
          /\ svcErr' = ""
  /\ UNCHANGED << started, mu, getResp, stopPc, panicked, taskChannel, processedTasks,
                  scanPc, scanList, scanCur, procPc, procCur, subPc, subId, updPc, updTask,
                  hist >>

\* claims.Role of an authenticated caller
Role(c) == IF c = "admin" THEN "admin" ELSE "user"

\* TaskService.GetTask: GetTaskByID, then task.UserID = ""
ServiceGetTask(db, id) ==
  LET r == GetTaskByID(db, id) IN
    IF r.err THEN r ELSE [r EXCEPT !.task.user_id = ""]

\* the authorization test of TaskHandler.GetTask on the task the service returned
Forbidden(task, userID, role) ==
  role # "admin" /\ task.user_id # "" /\ task.user_id # userID

\* TaskHandler.GetTask for an authenticated caller: 404, 403, or 200 with the task
GetTask(id, userID, role) ==
  /\ ~panicked
  /\ Serving
  /\ LET r == ServiceGetTask(tasks, id) IN
       getResp' =
         IF r.err
         THEN [caller |-> userID, id |-> id, code |-> 404, body |-> NoTask]
         ELSE IF Forbidden(r.task, userID, role)
         THEN [caller |-> userID, id |-> id, code |-> 403, body |-> NoTask]
         ELSE [caller |-> userID, id |-> id, code |-> 200, body |-> TaskArg(id, r.task)]
  /\ UNCHANGED << tasks, now, started, mu, stopPc, panicked, taskChannel, processedTasks,
                  scanPc, scanList, scanCur, procPc, procCur, subPc, subId, updPc, updTask,
                  hist, svcErr >>

\* request bodies of PUT /api/tasks/{id}
UpdateRequests ==
  {[title |-> "", description |-> "", status |-> st] :
      st \in {"in_progress", "completed", "archived"}}
  \cup {[title |-> "T1", description |-> "", status |-> ""]}

\* ------------------------------------------------------------------ specification
Next ==
  \/ Start
  \/ StopCall
  \/ StopReturn
  \/ ScanTick
  \/ ScanExit
  \/ ScanQuery
  \/ ScanSkip
  \/ ScanVisit
  \/ ScanSend
  \/ ScanTimeout
  \/ ProcDequeue
  \/ ProcExit
  \/ ProcFetch
  \/ ProcUpdate
  \/ \E s \in Submitters, id \in SubmitIds : SubmitTask(s, id)
  \/ \E s \in Submitters : SubmitSend(s)
  \/ \E s \in Submitters : SubmitTimeout(s)
  \/ Tick
  \/ \E id \in EditIds, c \in Callers, req \in UpdateRequests :
       UpdateTaskRead(id, c, c = "admin", req)
  \/ UpdateTaskWrite
  \/ \E id \in EditIds, c \in Callers : DeleteTask(id, c, c = "admin")

Spec == Init /\ [][Next]_vars

\* the checker goroutine runs: the ticker fires, a store call returns, a select
\* of findAndQueueTasks takes one of its cases
CheckerRuns == ScanTick \/ ScanQuery \/ ScanSkip \/ ScanVisit \/ ScanSend \/ ScanTimeout

\* the processor goroutine runs: it dequeues, a store call of autoCompleteTask returns
ProcessorRuns == ProcDequeue \/ ProcFetch \/ ProcUpdate

\* store calls that return without error
QuerySucceeds == ScanQuery /\ scanPc' # "failed"
FetchSucceeds == ProcFetch /\ procPc' = "update"
UpdateSucceeds == ProcUpdate /\ now' # now

\* Scheduling: a goroutine that can run does run. A select whose stop case is
\* ready again and again takes it (the runtime picks among ready cases at
\* random), a sender parked on the channel gets the slot a receive frees, and
\* store errors are transient: a call tried again and again succeeds.
Fairness ==
  /\ WF_vars(CheckerRuns)
  /\ WF_vars(ProcessorRuns)
  /\ WF_vars(StopReturn)
  /\ SF_vars(ScanExit)
  /\ SF_vars(ProcExit)
  /\ SF_vars(ScanSend)
  /\ SF_vars(QuerySucceeds)
  /\ SF_vars(FetchSucceeds)
  /\ SF_vars(UpdateSucceeds)

\* the worker on its own: no request of the task service is in progress
WorkerNext ==
  \/ Start
  \/ StopCall
  \/ StopReturn
  \/ CheckerRuns
  \/ ScanExit
  \/ ProcessorRuns
  \/ ProcExit
  \/ \E s \in Submitters, id \in SubmitIds : SubmitTask(s, id)
  \/ \E s \in Submitters : SubmitSend(s)
  \/ \E s \in Submitters : SubmitTimeout(s)
  \/ Tick

FairSpec == Init /\ [][WorkerNext]_vars /\ Fairness

\* the worker with the checker's iteration taken statement by statement
LockNext ==
  \/ Start
  \/ StopCall
  \/ StopReturn
  \/ ScanTick
  \/ ScanExit
  \/ ScanQuery
  \/ ScanSkip
  \/ VisitLock
  \/ VisitTest
  \/ VisitUnlock
  \/ ScanSend
  \/ TimeoutLock
  \/ TimeoutEvict
  \/ TimeoutUnlock
  \/ ProcessorRuns
  \/ ProcExit
  \/ \E s \in Submitters, id \in SubmitIds : SubmitTask(s, id)
  \/ \E s \in Submitters : SubmitSend(s)
  \/ \E s \in Submitters : SubmitTimeout(s)
  \/ Tick

LockSpec == Init /\ [][LockNext]_vars

\* the HTTP API on the task store: reads, updates and deletes of tasks
ReadNext ==
  \/ Start
  \/ Tick
  \/ \E id \in TaskIds, c \in Callers : GetTask(id, c, Role(c))
  \/ \E id \in EditIds, c \in Callers, req \in UpdateRequests :
       UpdateTaskRead(id, c, c = "admin", req)
  \/ UpdateTaskWrite
  \/ \E id \in EditIds, c \in Callers : DeleteTask(id, c, c = "admin")

ReadSpec == Init /\ [][ReadNext]_vars

\* the task service with the processor: tasks are created, updated, deleted
\* and handed to SubmitTask
StatusNext ==
  \/ Start
  \/ \E c \in Callers, req \in CreateRequests : CreateTask(c, req)
  \/ \E id \in EditIds \cup NewIds, c \in Callers, req \in UpdateRequests :
       UpdateTaskRead(id, c, c = "admin", req)
  \/ \E id \in EditIds \cup NewIds, c \in Callers, req \in UpdateRequests :
       UpdateTaskReject(id, c, c = "admin", req)
  \/ UpdateTaskWrite
  \/ \E id \in EditIds, c \in Callers : DeleteTask(id, c, c = "admin")
  \/ \E s \in Submitters, id \in SubmitIds : SubmitTask(s, id)
  \/ \E s \in Submitters : SubmitSend(s)
  \/ \E s \in Submitters : SubmitTimeout(s)
  \/ ProcDequeue
  \/ ProcFetch
  \/ ProcUpdate

StatusSpec == Init /\ [][StatusNext]_vars

\* ------------------------------------------------------------------ properties
InProcessor(t) == procPc \in {"fetch", "update"} /\ procCur.id = t
\* the step is one of autoCompleteTask's store calls
ProcessorStep == procPc \in {"fetch", "update"} /\ procPc' # procPc
Completed(db, t) == Live(db, t) /\ db[t].status = "completed"
Open(db, t) == Live(db, t) /\ db[t].status \in OpenStatuses

\* C1: when Stop() has returned, every identifier that was in the channel when
\* Stop() was called has been handed to autoCompleteTask.
C1_GracefulDrain == stopPc = "returned" => hist.backlog = 0

\* C2: once a scan has finished and the channel is drained, every task the
\* scan's query returned (open and older than the delay at the tick; no failed
\* store call, no enqueue timeout, no manual write, no stop since) is completed.
C2_ScanAndDrainCompletes ==
  (scanPc = "wait" /\ procPc = "wait" /\ taskChannel = << >>)
    => \A t \in hist.due : Completed(tasks, t)

\* C3: a store call of autoCompleteTask made while the task's stored status is
\* completed leaves the task's row (status and updated_at) as it was.
C3_CompletedNeverRewritten ==
  [][\A t \in TaskIds :
       (ProcessorStep /\ procCur.id = t /\ Completed(tasks, t)) => tasks'[t] = tasks[t]]_vars

\* the processor is past its re-fetch, which saw the task open, and the task
\* has been completed by a manual update since
C3_Witness == procPc = "update" /\ Completed(tasks, procCur.id)

\* C4: a store call of autoCompleteTask for an identifier whose task is deleted
\* writes nothing, does not crash the process, and leaves the processor in
\* its loop with the identifiers queued behind it still on the channel.
C4_DeletedTaskSkipped ==
  [][(ProcessorStep /\ procCur.id \in TaskIds /\ tasks[procCur.id].row = "deleted")
       => /\ tasks' = tasks
          /\ ~panicked'
          /\ procPc' = "wait"
          /\ taskChannel' = taskChannel]_vars

\* the task was deleted between the processor's re-fetch and its conditional
\* update, and another identifier is queued behind it
C4_Witness ==
  /\ procPc = "update"
  /\ tasks[procCur.id].row = "deleted"
  /\ taskChannel # << >>

\* C5: of the copies of one identifier on the channel, exactly one conditional
\* update takes effect: a conditional update on an open task completes it and
\* advances updated_at, it is the only one to change the row until a manual
\* write, and the processing of a copy of a completed task changes nothing.
C5_ExactlyOneWrite ==
  [][\A t \in TaskIds :
       /\ hist'.writes[t] <= 1
       /\ (ProcessorStep /\ procCur.id = t /\ now' # now /\ Open(tasks, t))
            => /\ tasks'[t].status = "completed"
               /\ tasks'[t].updated_at > tasks[t].updated_at
               /\ hist'.writes[t] = 1
       /\ (ProcessorStep /\ procCur.id = t /\ hist.writes[t] = 1)
            => /\ tasks' = tasks
               /\ hist'.writes[t] = 1]_vars

\* two SubmitTask calls for t2 were accepted while it was open: the processor
\* is at the conditional update for the first copy, the second is next
C5_Witness ==
  /\ ~StopRaised
  /\ procPc = "update"
  /\ procCur = Entry("t2", "submit")
  /\ taskChannel # << >>
  /\ Head(taskChannel) = Entry("t2", "submit")
  /\ Open(tasks, "t2")

\* C6: a SubmitTask call ends in one of two ways: with room on the channel at
\* the call it appends the identifier and returns nil; with the channel full it
\* waits, and returns ErrChannelFull leaving the channel as it was if the
\* channel is still full when it gives up. It never ends any other way.
C6_SubmitReturnsNilOrFull ==
  [][\A s \in Submitters :
       /\ \A id \in SubmitIds :
            SubmitTask(s, id)
              => /\ ~panicked'
                 /\ IF HasRoom
                    THEN /\ taskChannel' = Append(taskChannel, Entry(id, "submit"))
                         /\ subPc'[s] = "idle"
                    ELSE /\ taskChannel' = taskChannel
                         /\ subPc'[s] = "blocked"
       /\ subPc[s] = "blocked"
            => /\ ~panicked'
               /\ subPc'[s] = "idle"
                    => \/ ~HasRoom /\ taskChannel' = taskChannel
                       \/ HasRoom /\ taskChannel' = Append(taskChannel, Entry(subId[s], "submit"))]_vars

\* C7: the checker sends an identifier only after it has set its marker, and
\* never while a copy it sent is still on the channel; the channel never holds
\* two copies of one identifier that the checker sent.
C7_ScannerNoDuplicates ==
  /\ \A i, j \in 1..Len(taskChannel) :
       (i < j /\ taskChannel[i].src = "scan" /\ taskChannel[j].src = "scan")
         => taskChannel[i].id # taskChannel[j].id
  /\ scanPc = "send"
       => /\ scanCur \in processedTasks
          /\ \A i \in 1..Len(taskChannel) : taskChannel[i] # Entry(scanCur, "scan")

\* the checker is about to visit a task whose copy from an earlier tick is
\* still on the channel
C7_Witness ==
  /\ scanPc = "loop"
  /\ Head(scanList) \in processedTasks
  /\ \E i \in 1..Len(taskChannel) : taskChannel[i] = Entry(Head(scanList), "scan")

\* C8: an identifier is in processedTasks only while it is on the channel, in
\* the checker's select, or in autoCompleteTask.
C8_MarkerOnlyWhileInFlight ==
  \A t \in processedTasks :
    \/ t \in Ids(taskChannel)
    \/ scanPc = "send" /\ scanCur = t
    \/ InProcessor(t)

\* C9: when the checker's select times out on a full channel, the identifier
\* leaves processedTasks and the channel is as it was; a marker appears only
\* by the checker's visit of that task, so at its next visit the task is not
\* marked, and a visit of an unmarked task goes to the select to send it.
C9_BackpressureRelease ==
  [][/\ (scanPc = "send" /\ scanPc' # "send" /\ ~HasRoom)
          => /\ scanCur \notin processedTasks'
             /\ taskChannel' = taskChannel
     /\ \A t \in TaskIds :
          (t \notin processedTasks /\ t \in processedTasks')
            => scanPc = "loop" /\ Head(scanList) = t
     /\ (scanPc = "loop" /\ scanList' # scanList /\ Head(scanList) \notin processedTasks)
          => /\ scanPc' = "send"
             /\ scanCur' = Head(scanList)
             /\ scanCur' \in processedTasks']_vars

\* the checker is in its select with the channel full
C9_Witness == scanPc = "send" /\ ~HasRoom

\* C10: a failed eligibility query changes neither the channel nor
\* processedTasks, the checker goes back to waiting for the next tick, and the
\* checker goroutine ends only from that wait, on the stop signal.
C10_QueryErrorSkipsTick ==
  [][/\ (scanPc \in {"query", "failed"} /\ scanPc' # scanPc /\ "failed" \in {scanPc, scanPc'})
          => /\ taskChannel' = taskChannel
             /\ processedTasks' = processedTasks
             /\ scanPc' \in {"failed", "wait"}
     /\ (scanPc # "done" /\ scanPc' = "done") => (scanPc = "wait" /\ StopRaised)]_vars

\* the query has failed while identifiers are in flight and no stop was asked
C10_Witness ==
  /\ scanPc = "failed"
  /\ ~StopRaised
  /\ taskChannel # << >>
  /\ processedTasks # {}

\* C11: Stop() first raises the stop signal and closes the channel only from
\* its wait, after both goroutines have exited; once the channel is closed both
\* goroutines stay exited, so neither sends on it nor receives from it.
C11_ShutdownOrdering ==
  [][/\ stopPc' # stopPc
          => \/ stopPc = "idle" /\ stopPc' = "waiting"
             \/ /\ stopPc = "waiting" /\ stopPc' = "returned"
                /\ scanPc = "done" /\ procPc = "done"
     /\ Closed' => /\ scanPc' = "done" /\ procPc' = "done"
                   /\ scanCur' = NoId /\ procCur' = NoEntry
     /\ Closed => taskChannel' = taskChannel]_vars

\* Stop() has returned and closed the channel with identifiers still on it
C11_Witness == stopPc = "returned" /\ taskChannel # << >>

\* C12: with the stop signal raised, each goroutine blocked in a select can
\* leave it by the stop case: the checker waiting for the ticker, the checker
\* waiting to send inside findAndQueueTasks, the processor waiting to dequeue.
C12_StopObservable ==
  StopRaised =>
    /\ scanPc = "wait" => ENABLED ScanExit
    /\ scanPc = "send" => ENABLED (Next /\ scanPc' = "done")
    /\ procPc = "wait" => ENABLED ProcExit

\* the task is older than the delay
Old(db, t) == Live(db, t) /\ db[t].created_at < now - AutoCompleteMinutes

\* C13: under fair scheduling, a task that is open and older than the delay is
\* eventually no longer open (the worker completed it, or a request completed
\* or deleted it), unless Stop() is called or the clock reaches its last instant.
C13_EventuallyCompleted ==
  \A t \in TaskIds :
    (started /\ Open(tasks, t) /\ Old(tasks, t))
      ~> (~Open(tasks, t) \/ StopRaised \/ now = MaxTime)

\* C18: under fair scheduling, once Stop() has been called both goroutines
\* exit and Stop() returns.
C18_StopTerminates == (stopPc = "waiting") ~> (stopPc = "returned")

\* Stop() is called while the checker is in its select with the channel full
\* and the processor has already exited
C18_Witness == stopPc = "waiting" /\ scanPc = "send" /\ ~HasRoom /\ procPc = "done"

\* C14: a conditional update of autoCompleteTask that completes a task is made
\* when the task is older than the delay.
C14_OnlyEligibleCompleted ==
  [][\A t \in TaskIds :
       (ProcessorStep /\ Open(tasks, t) /\ Completed(tasks', t))
         => tasks[t].created_at < now' - AutoCompleteMinutes]_vars

\* C15: once the stop signal is raised, a SubmitTask call that starts does not
\* put its identifier on the channel, and the checker puts nothing on it.
C15_NoNewTasksAfterStop ==
  [][StopRaised =>
       /\ \A s \in Submitters, id \in SubmitIds :
            SubmitTask(s, id) => taskChannel' = taskChannel
       /\ scanPc = "send" => taskChannel' # Append(taskChannel, Entry(scanCur, "scan"))]_vars

\* C16: processedTasks is read (the marker test) and written only with the
\* mutex held; the mutex is free whenever the checker is in the enqueue select
\* and whenever an iteration has ended; it is locked only at the start of a
\* visit or of the timeout branch and unlocked only after the map access.
C16_LockDiscipline ==
  [][/\ processedTasks' # processedTasks => mu = "checker" /\ mu' = "checker"
     /\ (scanPc = "locked" /\ scanPc' # "locked") => mu = "checker"
     /\ scanPc' = "send" => mu' = "free"
     /\ scanPc' \in {"loop", "wait", "done"} => mu' = "free"
     /\ mu' # mu
          => \/ mu = "free" /\ scanPc \in {"loop", "send"} /\ scanPc' \in {"locked", "evict"}
             \/ mu = "checker" /\ scanPc \in {"marked", "skipped", "evicted"}]_vars

\* the enqueue timed out and the checker holds the mutex, the marker deleted
C16_Witness == scanPc = "evicted" /\ mu = "checker" /\ scanCur \notin processedTasks

\* C17: a GET of an existing task answers 200 only to the task's owner or to
\* an admin, and answers every other caller 403 without the task.
C17_ReadAccessControl ==
  LET allowed == getResp.caller = "admin" \/ getResp.caller = Owner(getResp.id) IN
    /\ getResp.code = 200 => allowed
    /\ (getResp.code \in {200, 403} /\ ~allowed)
         => getResp.code = 403 /\ getResp.body = NoTask

\* C19: the write of an update request whose status field is empty leaves
\* every completed task completed.
C19_TitleEditKeepsStatus ==
  [][(updPc = "write" /\ updPc' = "idle" /\ hist.keeps)
       => \A t \in TaskIds : Completed(tasks, t) => Completed(tasks', t)]_vars

\* C20: the process never dies of a panic: no SubmitTask call sends, or is
\* parked sending, on the channel Stop() has closed.
C20_NeverFatal == ~panicked

\* C21: once the checker has put an identifier on the channel its marker stays
\* in processedTasks for good, and the checker never puts that identifier on
\* the channel again, whatever became of its processing and of the task.
C21_AtMostOnceEnqueue ==
  [][/\ \A t \in hist.sent : t \in processedTasks /\ t \in processedTasks'
     /\ (scanPc = "send" /\ taskChannel' = Append(taskChannel, Entry(scanCur, "scan")))
          => scanCur \notin hist.sent]_vars

\* the checker visits a task it queued at an earlier tick: the copy has been
\* processed and the task was set to in_progress by a request since
C21_Witness ==
  /\ scanPc = "loop"
  /\ Head(scanList) \in hist.sent
  /\ Head(scanList) \notin Ids(taskChannel)
  /\ ~InProcessor(Head(scanList))
  /\ Live(tasks, Head(scanList))
  /\ tasks[Head(scanList)].status = "in_progress"

\* C22: the channel never holds more identifiers than its capacity, and while
\* it is full its content changes only by the processor's dequeue.
C22_QueueBound ==
  [][/\ Len(taskChannel) <= QueueCap
     /\ Len(taskChannel') <= QueueCap
     /\ Len(taskChannel) = QueueCap
          => \/ taskChannel' = taskChannel
             \/ /\ taskChannel' = Tail(taskChannel)
                /\ procPc = "wait" /\ procCur' = Head(taskChannel)]_vars

\* the channel is full while the checker and a SubmitTask call both wait to send
C22_Witness ==
  /\ Len(taskChannel) = QueueCap
  /\ scanPc = "send"
  /\ \E s \in Submitters : subPc[s] = "blocked"

\* C23: the channel changes only by an identifier joining at its end or by the
\* processor taking the one at its front, and the processor takes one only
\* when it has finished with the one before.
C23_FifoProcessing ==
  [][/\ taskChannel' # taskChannel
          => \/ /\ Len(taskChannel') = Len(taskChannel) + 1
                /\ SubSeq(taskChannel', 1, Len(taskChannel)) = taskChannel
             \/ /\ taskChannel # << >>
                /\ taskChannel' = Tail(taskChannel)
                /\ procCur' = Head(taskChannel)
     /\ (procCur' # procCur /\ procCur' # NoEntry)
          => /\ procPc = "wait" /\ procCur = NoEntry
             /\ procPc' = "fetch"
             /\ taskChannel # << >>
             /\ procCur' = Head(taskChannel)
             /\ taskChannel' = Tail(taskChannel)]_vars

\* the processor is busy with one identifier while two different ones wait
C23_Witness ==
  /\ procPc \in {"fetch", "update"}
  /\ Len(taskChannel) = 2
  /\ taskChannel[1] # taskChannel[2]

\* a step of findAndQueueTasks: the query, its error return, a visit of the
\* loop, or an outcome of the select
ScannerStep ==
  /\ scanPc \in {"query", "failed", "loop", "send"}
  /\ << scanPc, scanList, scanCur >>' # << scanPc, scanList, scanCur >>

\* C24: no step of findAndQueueTasks, whether the query fails, an identifier
\* is sent or the select times out, changes a task row or the clock of the
\* store; of the worker's state it changes only its own position,
\* processedTasks and taskChannel.
C24_ScannerReadsOnly ==
  [][ScannerStep
       => /\ tasks' = tasks
          /\ now' = now
          /\ UNCHANGED << started, stopPc, panicked, procPc, procCur, subPc, subId,
                          updPc, updTask, getResp, svcErr >>]_vars

\* the checker has sent an identifier that is still queued and its task still
\* open, and in a tick is about to visit an open task
C24_Witness ==
  /\ scanPc = "loop"
  /\ taskChannel # << >>
  /\ taskChannel[Len(taskChannel)].src = "scan"
  /\ Open(tasks, Head(scanList))
  /\ Open(tasks, taskChannel[Len(taskChannel)].id)

\* C25: a store call of autoCompleteTask leaves every task but the dequeued
\* one as it was; the re-fetch writes nothing; the conditional update, after
\* which the identifier is done with, leaves the row's owner, title,
\* description and created_at as they were, and when it changes the row it
\* sets status to completed and updated_at to the time of the write.
C25_ProcessorWriteFrame ==
  [][ProcessorStep
       => /\ \A t \in TaskIds \ {procCur.id} : tasks'[t] = tasks[t]
          /\ procPc = "fetch" => tasks' = tasks
          /\ procPc = "update" => (procPc' = "wait" /\ procCur' = NoEntry)
          /\ \A t \in TaskIds \cap {procCur.id} :
                /\ tasks'[t].row = tasks[t].row
                /\ tasks'[t].user_id = tasks[t].user_id
                /\ tasks'[t].title = tasks[t].title
                /\ tasks'[t].description = tasks[t].description
                /\ tasks'[t].created_at = tasks[t].created_at
                /\ tasks'[t] # tasks[t]
                     => /\ tasks'[t].status = "completed"
                        /\ tasks'[t].updated_at = now'
                        /\ now' > now]_vars

\* the processor is at the conditional update for t1 while both tasks are open
C25_Witness ==
  /\ procPc = "update"
  /\ procCur.id = "t1"
  /\ Open(tasks, "t1")
  /\ Open(tasks, "t2")
  /\ now < MaxTime

\* C26: every stored task has status pending, in_progress or completed; a
\* task that CreateTask inserts has status pending; an UpdateTask call whose
\* request names any other non-empty status returns an error, starts no
\* write and leaves the store as it was.
C26_StatusDomain ==
  [][/\ \A id \in StoreIds :
          /\ Live(tasks, id) => tasks[id].status \in {"pending", "in_progress", "completed"}
          /\ Live(tasks', id) => tasks'[id].status \in {"pending", "in_progress", "completed"}
          /\ (tasks[id].row = "absent" /\ Live(tasks', id)) => tasks'[id].status = "pending"
     /\ \A id \in EditIds \cup NewIds, c \in Callers, req \in UpdateRequests :
          (/\ req.status \notin {"", "pending", "in_progress", "completed"}
           /\ \/ UpdateTaskRead(id, c, c = "admin", req)
              \/ UpdateTaskReject(id, c, c = "admin", req))
            => /\ svcErr' # ""
               /\ tasks' = tasks
               /\ updPc' = updPc
               /\ updTask' = updTask]_vars

\* a task has been created and is still pending, and the owner's request for
\* another status on a task has just been refused as invalid
C26_Witness ==
  /\ svcErr = "invalid status"
  /\ \E id \in NewIds : Live(tasks, id) /\ tasks[id].status = "pending"

====
